---- MODULE Spec2Model ----
(***************************************************************************)
(* Appointment automation: a watched directory (main.py) or a desktop      *)
(* window (gui_pyqt.py) feeds audio files through                          *)
(*   transcribe -> extract -> store -> notify -> archive                   *)
(* built from the components of utils.py.                                  *)
(***************************************************************************)
EXTENDS Integers, Sequences, FiniteSets, TLC

VARIABLES
    store,      \* the appointments .xlsx file: NoFile, or [header, rows]
    addedLog,   \* history: the record of every add_appointment call that returned normally
    lastCall,   \* history: the last ExcelManager call made directly (SpecStore)
    cfg,        \* ConfigManager.config: the sections and options loaded from config.ini
    lastGet,    \* history: the last ConfigManager getter call and what it gave
    mode,       \* which program runs: "watch" (main.py) or "gui" (gui_pyqt.py)
    atOrig,     \* the audio files that exist at their original path
    processed,  \* the files of the processed directory
    transcripts,\* the .txt files of the transcripts directory: base name -> text
    outbox,     \* the confirmation emails the SMTP server accepted, in order
    events,     \* watchdog's queue of file-creation events not yet dispatched
    run,        \* the pipeline runs, in the order they were started: position and locals
    nRuns,      \* how many runs were started
    nCreated,   \* how many entries were created in the watched directory
    eqIn,       \* SpecEquiv: the file and the outcomes of the external steps
    eqW,        \* SpecEquiv: process_audio_file's run and its world
    eqG         \* SpecEquiv: run_pipeline's run and its world

storeVars == <<store, addedLog, lastCall>>
configVars == <<cfg, lastGet>>
pipeVars == <<mode, atOrig, processed, transcripts, outbox, events, run, nRuns, nCreated>>
equivVars == <<eqIn, eqW, eqG>>

(***************************************************************************)
(* Bounds of the model.                                                    *)
(***************************************************************************)
MaxAdds == 3
MaxRuns == 2        \* pipeline runs started (watch mode: directory entries created)

(***************************************************************************)
(* Python values.  A JSON string is a TLA+ string; None, NaN and the empty *)
(* spreadsheet cell are reserved strings no JSON value of the model takes. *)
(***************************************************************************)
PyNone == "<None>"
NaN == "<NaN>"
EmptyCell == "<empty cell>"

\* ExcelManager.headers
headers ==
    <<"name", "email", "phone", "plate", "model", "date",
      "time_of_call", "time_of_appointment", "services_provided">>

HeaderSet == {headers[i] : i \in 1..Len(headers)}

\* dict.get(key, default)
DictGet(d, key, default) == IF key \in DOMAIN d THEN d[key] ELSE default

(***************************************************************************)
(* Appointment records the extraction can return (dicts of the JSON reply).*)
(***************************************************************************)
RecEmpty == [k \in {} |-> ""]

RecFull ==
    [k \in HeaderSet |->
        CASE k = "name" -> "Sam"
          [] k = "email" -> "sam@x.com"
          [] k = "services_provided" -> "oil change"
          [] OTHER -> "x"]

\* every key present, most of them null ("If missing, return null for that key")
RecNulls == [k \in HeaderSet |-> IF k = "name" THEN "Ann" ELSE PyNone]

\* some header keys absent, one key outside the header
RecPartial ==
    [k \in {"name", "plate", "notes"} |->
        CASE k = "name" -> "Bob" [] k = "plate" -> "ABC123" [] OTHER -> "call back"]

\* an empty-string email
RecBlankEmail == [k \in {"email", "phone"} |-> IF k = "email" THEN "" ELSE "555-1234"]

SampleRecords == {RecEmpty, RecFull, RecNulls, RecPartial, RecBlankEmail}

\* What json.loads can return: a dict, or a JSON value that is no dict
Dict(rec) == [kind |-> "dict", fields |-> rec]
JsonNull == [kind |-> "null", fields |-> RecEmpty]
JsonList == [kind |-> "list", fields |-> RecEmpty]     \* a non-empty list

\* the records the language model returns in Spec
ExtractedRecords == {RecEmpty, RecFull}

JsonValues(records) == {Dict(rec) : rec \in records} \cup {JsonNull, JsonList}

\* Python truth of a JSON value: `not appointment_data`
Truthy(v) == (v.kind = "dict" /\ DOMAIN v.fields # {}) \/ v.kind = "list"

(***************************************************************************)
(* The spreadsheet file and pandas' view of it.                            *)
(***************************************************************************)
NoFile == [exists |-> FALSE, header |-> <<>>, rows |-> <<>>]

\* openpyxl writes None, NaN and "" as an empty cell
ToExcelCell(v) == IF v \in {PyNone, NaN, ""} THEN EmptyCell ELSE v

\* pandas reads an empty cell as NaN
ReadExcelCell(c) == IF c = EmptyCell THEN NaN ELSE c

ColumnSet(cols) == {cols[i] : i \in 1..Len(cols)}

\* pd.DataFrame(columns=self.headers)
EmptyFrame == [columns |-> headers, rows |-> <<>>]

\* no frame: df before add_appointment has read the file
NoFrame == [columns |-> <<>>, rows |-> <<>>]

\* pd.read_excel(self.file_path, engine='openpyxl')
ReadExcel(file) ==
    [columns |-> file.header,
     rows |-> [i \in 1..Len(file.rows) |->
                 [c \in ColumnSet(file.header) |-> ReadExcelCell(file.rows[i][c])]]]

\* df.to_excel(self.file_path, index=False, engine='openpyxl'): the whole file is rewritten
ToExcel(df) ==
    [exists |-> TRUE,
     header |-> df.columns,
     rows |-> [i \in 1..Len(df.rows) |->
                 [c \in ColumnSet(df.columns) |-> ToExcelCell(df.rows[i][c])]]]

\* new_entry = {col: appointment_data.get(col, "") for col in self.headers}
NewEntry(appointment_data) == [col \in HeaderSet |-> DictGet(appointment_data, col, "")]

\* Concat, were the frame replaced by the new row instead of extended
ConcatOverwrites(df, new_entry) == [df EXCEPT !.rows = <<new_entry>>]

\* pd.concat([df, pd.DataFrame([new_entry])], ignore_index=True)
Concat(df, new_entry) == [df EXCEPT !.rows = Append(df.rows, new_entry)]

\* _ensure_excel_file_exists without its os.path.exists test
EnsureAlwaysCreates(file, created) == ToExcel(EmptyFrame)

\* ExcelManager._ensure_excel_file_exists; created = FALSE: to_excel raised, which is
\* logged and swallowed
EnsureExcelFileExists(file, created) ==
    IF ~file.exists
    THEN (IF created THEN ToExcel(EmptyFrame) ELSE file)
    ELSE file

\* The read half of add_appointment: read_excel raises when the file is missing or
\* unreadable (io = "read_error")
AddRead(file, io) ==
    IF ~file.exists \/ io = "read_error"
    THEN [exc |-> "OSError", df |-> NoFrame]
    ELSE [exc |-> "", df |-> ReadExcel(file)]

\* The write half, were the file read again under a lock at the moment of writing
AddWriteRereads(file, df, appointment_data, io) ==
    IF appointment_data.kind # "dict" \/ io = "write_error"
    THEN [exc |-> "OSError", file |-> file]
    ELSE [exc |-> "",
          file |-> ToExcel(Concat(ReadExcel(file), NewEntry(appointment_data.fields)))]

\* The write half of add_appointment: appointment_data.get raises on a value that is
\* no dict; a failed to_excel (io = "write_error") leaves the file as it was
AddWrite(file, df, appointment_data, io) ==
    IF appointment_data.kind # "dict"
    THEN [exc |-> "AttributeError", file |-> file]
    ELSE IF io = "write_error"
    THEN [exc |-> "OSError", file |-> file]
    ELSE [exc |-> "", file |-> ToExcel(Concat(df, NewEntry(appointment_data.fields)))]

\* ExcelManager.add_appointment, called with nothing running beside it
AddAppointment(file, appointment_data, io) ==
    LET rd == AddRead(file, io)
    IN  IF rd.exc # ""
        THEN [exc |-> rd.exc, file |-> file]
        ELSE AddWrite(file, rd.df, appointment_data, io)

StoreIO == {"ok", "read_error", "write_error"}

(***************************************************************************)
(* SpecStore: an ExcelManager driven directly, one call after the other.   *)
(***************************************************************************)
NoCall == [op |-> "none", before |-> NoFile, raised |-> FALSE]

InitStoreVars ==
    /\ store = NoFile
    /\ addedLog = <<>>
    /\ lastCall = NoCall

\* ExcelManager.__init__ (and any later call of _ensure_excel_file_exists)
StoreEnsure ==
    \E created \in BOOLEAN :
        /\ store' = EnsureExcelFileExists(store, created)
        /\ lastCall' = [op |-> "ensure", before |-> store, raised |-> ~created]
        /\ UNCHANGED addedLog

StoreAdd ==
    \E rec \in SampleRecords, io \in StoreIO :
        LET res == AddAppointment(store, Dict(rec), io)
        IN  /\ Len(addedLog) < MaxAdds
            /\ store' = res.file
            /\ addedLog' = IF res.exc = "" THEN Append(addedLog, rec) ELSE addedLog
            /\ lastCall' = [op |-> "add", before |-> store, raised |-> res.exc # ""]

(***************************************************************************)
(* ConfigManager: the parsed config.ini is a map from the sections present *)
(* to the options each holds.                                              *)
(***************************************************************************)
Sections == {"PATHS", "EMAIL", "WHISPER", "OPENAI"}

OptionsOf(section) ==
    CASE section = "PATHS" -> {"processed_dir", "transcripts_dir"}
      [] section = "EMAIL" -> {"smtp_port"}
      [] section = "WHISPER" -> {"model_path"}
      [] section = "OPENAI" -> {"api_key"}

ConfigValues == {"v1", "v2"}

\* every content a section of the file can have: any subset of its options, any values
SectionContents(section) ==
    UNION {[opts -> ConfigValues] : opts \in SUBSET OptionsOf(section)}

\* every configuration ConfigManager.__init__ can load
Configs ==
    UNION {{c \in [present -> UNION {SectionContents(s) : s \in present}] :
                \A s \in present : c[s] \in SectionContents(s)}
           : present \in SUBSET Sections}

QueriedKeys == UNION {OptionsOf(s) : s \in Sections} \cup {"no_such_key"}

\* self.config[section].get(key): KeyError without the section, None without the key
SectionGet(config, section, key) ==
    IF section \notin DOMAIN config
    THEN [exc |-> "KeyError", val |-> PyNone]
    ELSE [exc |-> "", val |-> DictGet(config[section], key, PyNone)]

\* ConfigManager.get_path
get_path(config, key) ==
    IF "PATHS" \notin DOMAIN config
    THEN [exc |-> "ValueError", val |-> PyNone]
    ELSE SectionGet(config, "PATHS", key)

\* ConfigManager.get_email_config
get_email_config(config, key) == SectionGet(config, "EMAIL", key)

\* ConfigManager.get_whisper_config
get_whisper_config(config, key) == SectionGet(config, "WHISPER", key)

\* ConfigManager.get_openai_config
get_openai_config(config, key) == SectionGet(config, "OPENAI", key)

NoGet == [getter |-> "none", section |-> "", key |-> "", exc |-> "", val |-> PyNone]

InitConfigVars ==
    /\ cfg = [s \in {} |-> RecEmpty]
    /\ lastGet = NoGet

Got(getter, section, key, res) ==
    /\ lastGet' = [getter |-> getter, section |-> section, key |-> key,
                   exc |-> res.exc, val |-> res.val]
    /\ UNCHANGED cfg

GetPath == \E key \in QueriedKeys : Got("get_path", "PATHS", key, get_path(cfg, key))

GetEmailConfig ==
    \E key \in QueriedKeys :
        Got("get_email_config", "EMAIL", key, get_email_config(cfg, key))

GetWhisperConfig ==
    \E key \in QueriedKeys :
        Got("get_whisper_config", "WHISPER", key, get_whisper_config(cfg, key))

GetOpenaiConfig ==
    \E key \in QueriedKeys :
        Got("get_openai_config", "OPENAI", key, get_openai_config(cfg, key))

(***************************************************************************)
(* Files.  A path is a base name split into stem and extension.            *)
(***************************************************************************)
Path(stem, ext) == [stem |-> stem, ext |-> ext]
NoPath == Path("", "")

AudioPaths == {Path("a", ".wav"), Path("a", ".MP3")}
Paths == AudioPaths \cup {Path("notes", ".txt")}

\* the files the user of the window has at hand
GuiFiles == {Path("a", ".wav"), Path("notes", ".txt")}

\* str.lower() on the extension
Lower(ext) == IF ext = ".MP3" THEN ".mp3" ELSE ext

\* file_path.lower().endswith(('.wav', '.mp3', '.mp4'))
Recognized(path) == Lower(path.ext) \in {".wav", ".mp3", ".mp4"}

(***************************************************************************)
(* The external steps.  Each takes the outcome the outside world gives it  *)
(* and returns the exception it raises ("" for none) and its result.       *)
(***************************************************************************)
TranscribeOutcomes == {"error", "hello, this is Sam"}

\* AudioProcessor.transcribe_audio: logs and re-raises whatever preprocessing or the
\* model raises; a file that is not there cannot be loaded
transcribe_audio(w, audio_path, outcome) ==
    IF audio_path \notin w.atOrig \/ outcome = "error"
    THEN [exc |-> "RuntimeError", val |-> ""]
    ELSE [exc |-> "", val |-> outcome]

\* The language model's answers: the service fails, or replies some text, inside a
\* markdown code fence or not, that is a JSON value or is not JSON at all
NotJson == [kind |-> "garbage", fields |-> RecEmpty]
ServiceError == [fenced |-> FALSE, failed |-> TRUE, body |-> NotJson]

LLMReplies(records) ==
    {ServiceError} \cup
    {[fenced |-> f, failed |-> FALSE, body |-> b] :
        f \in BOOLEAN, b \in JsonValues(records) \cup {NotJson}}

\* re.search(r"```(?:json)?\s*(\{.*?\})\s*```", content): only a fenced object matches
FenceStripped(reply) == reply.fenced /\ reply.body.kind = "dict"

\* DataExtractor.extract_info
extract_info(transcript, reply) ==
    IF reply.failed
    THEN [exc |-> "APIError", val |-> JsonNull]
    ELSE IF reply.body.kind = "garbage" \/ (reply.fenced /\ ~FenceStripped(reply))
    THEN [exc |-> "JSONDecodeError", val |-> JsonNull]
    ELSE [exc |-> "", val |-> reply.body]

FallbackRecipient == "cnayak70@gmail.com"

\* appointment_data.get('email') or 'cnayak70@gmail.com'
Recipient(appointment_data) ==
    LET email == DictGet(appointment_data.fields, "email", PyNone)
    IN  IF email \in {PyNone, ""} THEN FallbackRecipient ELSE email

\* EmailSender.send_confirmation
send_confirmation(w, recipient, details, outcome) ==
    IF outcome = "smtp_error"
    THEN [exc |-> "SMTPException", w |-> w]
    ELSE [exc |-> "",
          w |-> [w EXCEPT !.outbox = Append(@, [to |-> recipient,
                                                name |-> DictGet(details.fields, "name", PyNone)])]]

\* open(transcript_file, 'w', encoding='utf-8'); f.write(transcript): the file is named
\* after the stem of the audio file and replaces an older transcript of that name
write_transcript(w, file_path, transcript, outcome) ==
    IF outcome = "os_error"
    THEN [exc |-> "OSError", w |-> w]
    ELSE [exc |-> "",
          w |-> [w EXCEPT !.transcripts =
                    [s \in DOMAIN @ \cup {file_path.stem} |->
                        IF s = file_path.stem THEN transcript ELSE @[s]]]]

\* os.rename(file_path, processed_path)
os_rename(w, file_path, outcome) ==
    IF file_path \notin w.atOrig
    THEN [exc |-> "FileNotFoundError", w |-> w]
    ELSE IF outcome = "os_error"
    THEN [exc |-> "OSError", w |-> w]
    ELSE [exc |-> "",
          w |-> [w EXCEPT !.atOrig = @ \ {file_path},
                          !.processed = @ \cup {file_path}]]

(***************************************************************************)
(* A pipeline run: where it is (pc), its locals, and what it has done.     *)
(*   pc: idle, transcribing, saving, extracting, storing (add_appointment  *)
(*   before its read), writing (add_appointment between read and write),   *)
(*   notifying, archiving, done, error (the except clause ran), crashed    *)
(*   (an exception left the function)                                      *)
(***************************************************************************)
NoErr == [step |-> "", exc |-> ""]

IdleRun ==
    [pc |-> "idle", file |-> NoPath, transcript |-> "", data |-> JsonNull,
     df |-> NoFrame, log |-> <<>>, err |-> NoErr]

StartRun(file_path) == [IdleRun EXCEPT !.pc = "transcribing", !.file = file_path]

\* the classes `except Exception` catches
IsException(exc) ==
    exc \in {"RuntimeError", "OSError", "FileNotFoundError", "APIError", "JSONDecodeError",
             "ValueError", "AttributeError", "SMTPException"}

\* the stage after the one a run is at
NextStage(pc) ==
    CASE pc = "transcribing" -> "extracting"
      [] pc = "saving" -> "extracting"
      [] pc = "extracting" -> "storing"
      [] pc = "storing" -> "writing"
      [] pc = "writing" -> "notifying"
      [] pc = "notifying" -> "archiving"
      [] OTHER -> "done"

\* The except clause, were each step wrapped on its own and the run carried on
ExceptLogsAndGoesOn(r, w, step, exc) ==
    [r |-> [r EXCEPT !.pc = NextStage(r.pc),
                     !.err = [step |-> step, exc |-> exc],
                     !.log = Append(@, <<step, "fail">>)],
     w |-> w]

\* The except clause, were a blank row saved when extraction fails
ExceptSavesPartial(r, w, step, exc) ==
    [r |-> [r EXCEPT !.pc = "error",
                     !.err = [step |-> step, exc |-> exc],
                     !.log = Append(@, <<step, "fail">>)],
     w |-> IF step = "extract" /\ w.store.exists
           THEN [w EXCEPT !.store = ToExcel(Concat(ReadExcel(@), NewEntry(RecEmpty)))]
           ELSE w]

\* The except clause, were the last row taken back when the email fails
ExceptRollsBack(r, w, step, exc) ==
    [r |-> [r EXCEPT !.pc = "error",
                     !.err = [step |-> step, exc |-> exc],
                     !.log = Append(@, <<step, "fail">>)],
     w |-> IF step = "notify" /\ w.store.rows # <<>>
           THEN [w EXCEPT !.store.rows = SubSeq(@, 1, Len(@) - 1)]
           ELSE w]

\* The except clause, were a failed file moved out of the way too
ExceptMovesFile(r, w, step, exc) ==
    [r |-> [r EXCEPT !.pc = "error",
                     !.err = [step |-> step, exc |-> exc],
                     !.log = Append(@, <<step, "fail">>)],
     w |-> [w EXCEPT !.atOrig = @ \ {r.file}, !.processed = @ \cup {r.file}]]

\* The except clause, were it `except ValueError`
CatchValueErrorOnly(r, w, step, exc) ==
    [r |-> [r EXCEPT !.pc = IF exc = "ValueError" THEN "error" ELSE "crashed",
                     !.err = [step |-> step, exc |-> exc],
                     !.log = Append(@, <<step, "fail">>)],
     w |-> w]

\* `except Exception as e: print(...)`: the run ends, nothing is undone
Except(r, w, step, exc) ==
    [r |-> [r EXCEPT !.pc = IF IsException(exc) THEN "error" ELSE "crashed",
                     !.err = [step |-> step, exc |-> exc],
                     !.log = Append(@, <<step, "fail">>)],
     w |-> w]

\* a step returned: the run goes on at `next`
Continue(r, w, step, next) ==
    [r |-> [r EXCEPT !.pc = next, !.log = Append(@, <<step, "ok">>)], w |-> w]

\* the shared tail of both orchestrators: add_appointment, send_confirmation, os.rename
StoreNotifyArchive(r, w, o) ==
    CASE r.pc = "storing" ->
            LET rd == AddRead(w.store, o)
            IN  IF rd.exc # ""
                THEN Except(r, w, "store", rd.exc)
                ELSE [r |-> [r EXCEPT !.pc = "writing", !.df = rd.df], w |-> w]
      [] r.pc = "writing" ->
            LET wr == AddWrite(w.store, r.df, r.data, o)
            IN  IF wr.exc # ""
                THEN Except(r, w, "store", wr.exc)
                ELSE Continue(r, [w EXCEPT !.store = wr.file,
                                           !.added = Append(@, r.data.fields)],
                              "store", "notifying")
      [] r.pc = "notifying" ->
            LET sent == send_confirmation(w, Recipient(r.data), r.data, o)
            IN  IF sent.exc # ""
                THEN Except(r, w, "notify", sent.exc)
                ELSE Continue(r, sent.w, "notify", "archiving")
      [] r.pc = "archiving" ->
            LET mv == os_rename(w, r.file, o)
            IN  IF mv.exc # ""
                THEN Except(r, w, "archive", mv.exc)
                ELSE Continue(r, mv.w, "archive", "done")

\* NewFileHandler.process_audio_file, one step of it
process_audio_file(r, w, o) ==
    CASE r.pc = "transcribing" ->
            LET tr == transcribe_audio(w, r.file, o)
            IN  IF tr.exc # ""
                THEN Except(r, w, "transcribe", tr.exc)
                ELSE Continue([r EXCEPT !.transcript = tr.val], w, "transcribe", "saving")
      [] r.pc = "saving" ->
            LET sv == write_transcript(w, r.file, r.transcript, o)
            IN  IF sv.exc # ""
                THEN Except(r, w, "save_transcript", sv.exc)
                ELSE Continue(r, sv.w, "save_transcript", "extracting")
      [] r.pc = "extracting" ->
            LET ex == extract_info(r.transcript, o)
            IN  IF ex.exc # ""
                THEN Except(r, w, "extract", ex.exc)
                ELSE IF ~Truthy(ex.val)
                THEN Except([r EXCEPT !.log = Append(@, <<"extract", "ok">>)], w,
                            "validate", "ValueError")
                ELSE Continue([r EXCEPT !.data = ex.val], w, "extract", "storing")
      [] OTHER -> StoreNotifyArchive(r, w, o)

\* MainWindow.run_pipeline, one step of it
run_pipeline(r, w, o) ==
    CASE r.pc = "transcribing" ->
            LET tr == transcribe_audio(w, r.file, o)
            IN  IF tr.exc # ""
                THEN Except(r, w, "transcribe", tr.exc)
                ELSE Continue([r EXCEPT !.transcript = tr.val], w, "transcribe", "extracting")
      [] r.pc = "extracting" ->
            LET ex == extract_info(r.transcript, o)
            IN  IF ex.exc # ""
                THEN Except(r, w, "extract", ex.exc)
                ELSE IF ex.val.kind # "dict"
                THEN \* for k, v in data.items()
                     Except([r EXCEPT !.log = Append(@, <<"extract", "ok">>)], w,
                            "display", "AttributeError")
                ELSE Continue([r EXCEPT !.data = ex.val], w, "extract", "storing")
      [] OTHER -> StoreNotifyArchive(r, w, o)

\* the outcomes the outside world can give the step a run is at
Outcomes(pc) ==
    CASE pc = "transcribing" -> TranscribeOutcomes
      [] pc = "saving" -> {"ok", "os_error"}
      [] pc = "extracting" -> LLMReplies(ExtractedRecords)
      [] pc = "storing" -> {"ok", "read_error"}
      [] pc = "writing" -> {"ok", "write_error"}
      [] pc = "notifying" -> {"ok", "smtp_error"}
      [] pc = "archiving" -> {"ok", "os_error"}

Ended(r) == r.pc \in {"done", "error", "crashed"}
Active(r) == r.pc \notin {"idle", "done", "error", "crashed"}

(***************************************************************************)
(* The two programs.  In watch mode watchdog's observer calls on_created   *)
(* on its one callback thread, so a run is started when the handler has    *)
(* returned from the one before; in gui mode process_file starts a new     *)
(* thread for every submitted file.                                        *)
(***************************************************************************)
Runs == 1..MaxRuns

World ==
    [atOrig |-> atOrig, processed |-> processed, transcripts |-> transcripts,
     store |-> store, outbox |-> outbox, added |-> addedLog]

SetWorld(w) ==
    /\ atOrig' = w.atOrig
    /\ processed' = w.processed
    /\ transcripts' = w.transcripts
    /\ store' = w.store
    /\ outbox' = w.outbox
    /\ addedLog' = w.added

NoTranscripts == [s \in {} |-> ""]

FreshWorld(files) ==
    [atOrig |-> files, processed |-> {}, transcripts |-> NoTranscripts,
     store |-> ToExcel(EmptyFrame), outbox |-> <<>>, added |-> <<>>]

DirPaths == {Path("archive", ".wav")}

InitPipeVars ==
    /\ processed = {}
    /\ transcripts = NoTranscripts
    /\ outbox = <<>>
    /\ events = <<>>
    /\ run = [k \in Runs |-> IdleRun]
    /\ nRuns = 0
    /\ nCreated = 0

\* neither orchestrator is run side by side
InitEquivVars ==
    /\ eqIn = [file |-> NoPath]
    /\ eqW = [r |-> IdleRun]
    /\ eqG = [r |-> IdleRun]

\* Somebody puts a file into the watched directory, at a path where none is
CreateFile ==
    \E p \in Paths \ atOrig :
        /\ mode = "watch"
        /\ nCreated < MaxRuns
        /\ nCreated' = nCreated + 1
        /\ atOrig' = atOrig \cup {p}
        /\ events' = Append(events, [src_path |-> p, is_directory |-> FALSE])
        /\ UNCHANGED <<mode, processed, transcripts, outbox, run, nRuns, storeVars>>

\* Somebody makes a subdirectory of the watched directory
CreateDirectory ==
    \E p \in DirPaths :
        /\ mode = "watch"
        /\ nCreated < MaxRuns
        /\ nCreated' = nCreated + 1
        /\ events' = Append(events, [src_path |-> p, is_directory |-> TRUE])
        /\ UNCHANGED <<mode, atOrig, processed, transcripts, outbox, run, nRuns, storeVars>>

\* on_created, were every event handed to a thread of its own
ObserverAlwaysFree == TRUE

\* the observer's callback thread is not inside a handler (and was not killed by one)
ObserverFree == \A k \in Runs : run[k].pc \in {"idle", "done", "error"}

\* NewFileHandler.on_created, up to its call of process_audio_file
OnCreated ==
    /\ mode = "watch"
    /\ ObserverFree
    /\ events # <<>>
    /\ events' = Tail(events)
    /\ LET event == Head(events)
       IN  IF ~event.is_directory /\ Recognized(event.src_path)
           THEN /\ run' = [run EXCEPT ![nRuns + 1] = StartRun(event.src_path)]
                /\ nRuns' = nRuns + 1
           ELSE UNCHANGED <<run, nRuns>>
    /\ UNCHANGED <<mode, atOrig, processed, transcripts, outbox, nCreated, storeVars>>

\* MainWindow.process_file: a new thread runs run_pipeline
process_file(file_path) ==
    /\ mode = "gui"
    /\ nRuns < MaxRuns
    /\ nRuns' = nRuns + 1
    /\ run' = [run EXCEPT ![nRuns + 1] = StartRun(file_path)]
    /\ UNCHANGED <<mode, atOrig, processed, transcripts, outbox, events, nCreated, storeVars>>

\* DragDropLabel.dropEvent: the first dropped file, if its extension is recognized
DropEvent == \E p \in atOrig : Recognized(p) /\ process_file(p)

\* MainWindow.browse_file: whatever file the dialog returns
BrowseFile == \E p \in atOrig : process_file(p)

\* One step of run k, which is at pc
StepAt(k, pc) ==
    /\ mode \in {"watch", "gui"}
    /\ run[k].pc = pc
    /\ \E o \in Outcomes(pc) :
          LET res == IF mode = "watch"
                     THEN process_audio_file(run[k], World, o)
                     ELSE run_pipeline(run[k], World, o)
          IN  /\ run' = [run EXCEPT ![k] = res.r]
              /\ SetWorld(res.w)
    /\ UNCHANGED <<mode, events, nRuns, nCreated, lastCall>>

Transcribe == \E k \in Runs : StepAt(k, "transcribing")
SaveTranscript == \E k \in Runs : StepAt(k, "saving")
Extract == \E k \in Runs : StepAt(k, "extracting")
StoreRead == \E k \in Runs : StepAt(k, "storing")
StoreWrite == \E k \in Runs : StepAt(k, "writing")
Notify == \E k \in Runs : StepAt(k, "notifying")
Archive == \E k \in Runs : StepAt(k, "archiving")

(***************************************************************************)
(* SpecEquiv: process_audio_file and run_pipeline side by side, each in    *)
(* its own copy of the same world, on the same file, given the same        *)
(* outcome for every external step.                                        *)
(***************************************************************************)
EquivOutcomes ==
    [transcribing : TranscribeOutcomes, saving : {"ok", "os_error"},
     extracting : LLMReplies(SampleRecords), storing : {"ok", "read_error"},
     writing : {"ok", "write_error"}, notifying : {"ok", "smtp_error"},
     archiving : {"ok", "os_error"}]

EquivStep ==
    /\ Active(eqW.r) \/ Active(eqG.r)
    /\ eqW' = IF Active(eqW.r)
              THEN process_audio_file(eqW.r, eqW.w, eqIn.o[eqW.r.pc])
              ELSE eqW
    /\ eqG' = IF Active(eqG.r)
              THEN run_pipeline(eqG.r, eqG.w, eqIn.o[eqG.r.pc])
              ELSE eqG
    /\ UNCHANGED eqIn

vars == <<storeVars, configVars, pipeVars, equivVars>>

(***************************************************************************)
(* Specifications.                                                         *)
(***************************************************************************)
\* The program after start-up: the components are constructed (ExcelManager.__init__
\* has made the spreadsheet, unless that failed) and nothing has been submitted.  The
\* watched directory starts empty; the files a user of the window can pick are there
Init ==
    /\ mode \in {"watch", "gui"}
    /\ atOrig = IF mode = "watch" THEN {} ELSE GuiFiles
    /\ InitPipeVars
    /\ store \in {EnsureExcelFileExists(NoFile, created) : created \in BOOLEAN}
    /\ addedLog = <<>>
    /\ lastCall = NoCall
    /\ InitConfigVars
    /\ InitEquivVars

Next ==
    \/ CreateFile /\ UNCHANGED <<configVars, equivVars>>
    \/ CreateDirectory /\ UNCHANGED <<configVars, equivVars>>
    \/ OnCreated /\ UNCHANGED <<configVars, equivVars>>
    \/ DropEvent /\ UNCHANGED <<configVars, equivVars>>
    \/ BrowseFile /\ UNCHANGED <<configVars, equivVars>>
    \/ Transcribe /\ UNCHANGED <<configVars, equivVars>>
    \/ SaveTranscript /\ UNCHANGED <<configVars, equivVars>>
    \/ Extract /\ UNCHANGED <<configVars, equivVars>>
    \/ StoreRead /\ UNCHANGED <<configVars, equivVars>>
    \/ StoreWrite /\ UNCHANGED <<configVars, equivVars>>
    \/ Notify /\ UNCHANGED <<configVars, equivVars>>
    \/ Archive /\ UNCHANGED <<configVars, equivVars>>

Spec == Init /\ [][Next]_vars

InitIdlePipe == mode = "none" /\ atOrig = {} /\ InitPipeVars

InitStore == InitStoreVars /\ InitConfigVars /\ InitIdlePipe /\ InitEquivVars

NextStore ==
    \/ StoreEnsure /\ UNCHANGED <<configVars, pipeVars, equivVars>>
    \/ StoreAdd /\ UNCHANGED <<configVars, pipeVars, equivVars>>

SpecStore == InitStore /\ [][NextStore]_vars

\* ConfigManager.__init__ has loaded some file; the getters are then called
InitConfig ==
    /\ InitStoreVars
    /\ InitIdlePipe
    /\ InitEquivVars
    /\ cfg \in Configs
    /\ lastGet = NoGet

NextConfig ==
    \/ GetPath /\ UNCHANGED <<storeVars, pipeVars, equivVars>>
    \/ GetEmailConfig /\ UNCHANGED <<storeVars, pipeVars, equivVars>>
    \/ GetWhisperConfig /\ UNCHANGED <<storeVars, pipeVars, equivVars>>
    \/ GetOpenaiConfig /\ UNCHANGED <<storeVars, pipeVars, equivVars>>

SpecConfig == InitConfig /\ [][NextConfig]_vars

InitEquiv ==
    /\ InitStoreVars
    /\ InitConfigVars
    /\ InitIdlePipe
    /\ \E f \in AudioPaths, o \in EquivOutcomes :
          /\ eqIn = [file |-> f, o |-> o]
          /\ eqW = [r |-> StartRun(f), w |-> FreshWorld({f})]
          /\ eqG = [r |-> StartRun(f), w |-> FreshWorld({f})]

NextEquiv == EquivStep /\ UNCHANGED <<storeVars, configVars, pipeVars>>

SpecEquiv == InitEquiv /\ [][NextEquiv]_vars

(***************************************************************************)
(* What a claim expects to find in the spreadsheet.                        *)
(***************************************************************************)
\* what the claim expects in the sheet for one record; the empty string, like null,
\* is an empty cell of the sheet
ExpectedRow(rec) ==
    [col \in HeaderSet |->
        IF col \in DOMAIN rec /\ rec[col] \notin {PyNone, ""} THEN rec[col] ELSE EmptyCell]

IsPrefix(s, t) == Len(s) <= Len(t) /\ \A i \in 1..Len(s) : s[i] = t[i]

(***************************************************************************)
(* C1: in every run the steps happen only in the order transcribe ->       *)
(* extract -> store -> notify -> archive; a step is started only when      *)
(* every earlier step of the run returned, and the first failure ends the  *)
(* run: nothing is logged after a failed step.                             *)
(***************************************************************************)
StepOrder == <<"transcribe", "extract", "store", "notify", "archive">>

IsClaimedStep(entry) == \E i \in 1..Len(StepOrder) : entry[1] = StepOrder[i]

\* how many of the five steps have returned when a run stands at pc
CompletedAt(pc) ==
    CASE pc = "transcribing" -> 0
      [] pc \in {"saving", "extracting"} -> 1
      [] pc \in {"storing", "writing"} -> 2
      [] pc = "notifying" -> 3
      [] pc = "archiving" -> 4
      [] pc = "done" -> 5

RunInOrder(r) ==
    LET L == SelectSeq(r.log, IsClaimedStep)
    IN  /\ Len(L) <= Len(StepOrder)
        /\ \A i \in 1..Len(L) : L[i][1] = StepOrder[i]
        /\ \A i \in 1..(Len(r.log) - 1) : r.log[i][2] = "ok"
        /\ (Active(r) \/ r.pc = "done") =>
              /\ \A i \in 1..Len(r.log) : r.log[i][2] = "ok"
              /\ Len(L) = CompletedAt(r.pc)
              /\ r.err = NoErr
        /\ r.err # NoErr =>
              /\ r.pc = "error"
              /\ r.log # <<>>
              /\ r.log[Len(r.log)] = <<r.err.step, "fail">>

\* C1: every run, at every moment, has done its steps in order and stopped at the
\* first failure
C1_OrderedTerminal == \A k \in Runs : RunInOrder(run[k])

C1_Witness ==
    /\ mode = "watch"
    /\ \E j \in Runs : run[j].pc = "done"
    /\ \E k \in Runs :
          /\ run[k].pc = "error"
          /\ run[k].log = <<<<"transcribe", "ok">>, <<"save_transcript", "ok">>,
                            <<"extract", "ok">>, <<"store", "ok">>, <<"notify", "fail">>>>

(***************************************************************************)
(* C2: a run whose extract_info fails (service failure or unparseable      *)
(* reply) writes nothing: no step of the run up to and including the       *)
(* failed extraction, and none after it, changes the spreadsheet, sends an *)
(* email or moves a file.                                                  *)
(***************************************************************************)
BeforeStore(r) == r.pc \in {"transcribing", "saving", "extracting"}

\* C2: the steps of a run up to a failed extract_info, and any after it, leave the
\* spreadsheet, the outbox and both directories unchanged
C2_ExtractFailureWritesNothing ==
    [][\A k \in Runs :
          (run'[k] # run[k] /\ (BeforeStore(run[k]) \/ run[k].err.step = "extract")) =>
              /\ store' = store
              /\ outbox' = outbox
              /\ atOrig' = atOrig
              /\ processed' = processed
              /\ (run'[k].err.step = "extract" => run'[k].pc = "error")
              /\ ~(run[k].err.step = "extract")]_vars

C2_Witness ==
    /\ store.exists
    /\ Len(store.rows) = 1
    /\ outbox # <<>>
    /\ \E k \in Runs :
          /\ run[k].pc = "error"
          /\ run[k].err = [step |-> "extract", exc |-> "JSONDecodeError"]
          /\ run[k].file \in atOrig

(***************************************************************************)
(* C3: when send_confirmation fails after add_appointment returned, the    *)
(* run ends in error at once: the failing step and the run's return leave  *)
(* the spreadsheet and the directories as they are (no rollback), and in   *)
(* directory-watch mode the row the run appended stays in the spreadsheet, *)
(* right below the rows the run read (the last row when the run ends),     *)
(* with the file still in place.                                           *)
(***************************************************************************)
NotifyFailed(r) == r.err.step = "notify"

C3_RowKept ==
    (mode = "watch") =>
        \A k \in Runs :
            NotifyFailed(run[k]) =>
                /\ run[k].pc = "error"
                /\ store.exists
                /\ Len(store.rows) > Len(run[k].df.rows)
                /\ store.rows[Len(run[k].df.rows) + 1] = ExpectedRow(run[k].data.fields)
                /\ k = nRuns => Len(store.rows) = Len(run[k].df.rows) + 1
                /\ IsPrefix(ToExcel(run[k].df).rows, store.rows)
                /\ run[k].file \in atOrig

C3_NoCompensation ==
    \A k \in Runs :
        (run'[k] # run[k] /\ (NotifyFailed(run'[k]) \/ NotifyFailed(run[k]))) =>
            /\ store' = store
            /\ outbox' = outbox
            /\ atOrig' = atOrig
            /\ processed' = processed
            /\ run[k].pc = "notifying"

C4_MovedExactlyOnSuccess ==
    [][\A k \in Runs :
          run'[k] # run[k] =>
              /\ run'[k].pc = "done" =>
                    /\ run'[k].file \notin atOrig'
                    /\ run'[k].file \in processed'
              /\ run'[k].pc = "error" =>
                    /\ run'[k].file \in atOrig'
                    /\ processed' = processed]_vars

(***************************************************************************)
(* C4 amended: a run's own steps move the file exactly when the run        *)
(* succeeds.  The step that ends a run successfully takes the file from    *)
(* its original path into the processed directory; no other step of a run  *)
(* changes either directory; and after a failed run the file is still at   *)
(* its original path, unless (interactive mode only) another run of the    *)
(* same file has archived it meanwhile.                                    *)
(***************************************************************************)
C4_RunMovesOnlyOnSuccess ==
    [][\A k \in Runs :
          run'[k] # run[k] =>
              /\ run'[k].pc = "done" =>
                    /\ run'[k].file \in atOrig
                    /\ atOrig' = atOrig \ {run'[k].file}
                    /\ processed' = processed \cup {run'[k].file}
              /\ run'[k].pc # "done" =>
                    /\ atOrig' = atOrig
                    /\ processed' = processed
              /\ run'[k].pc = "error" =>
                    \/ run'[k].file \in atOrig'
                    \/ mode = "gui" /\ run'[k].file \in processed']_vars

C4_Witness ==
    /\ mode = "watch"
    /\ \E j, k \in Runs :
          /\ run[j].pc = "error"
          /\ run[j].file \in atOrig
          /\ run[j].file \notin processed
          /\ run[k].pc = "done"
          /\ run[k].file \notin atOrig
          /\ run[k].file \in processed

(***************************************************************************)
(* C6: no failure of a step leaves process_audio_file or run_pipeline: no  *)
(* thread is ever killed by one, every failed run has ended in the except  *)
(* clause, and in directory-watch mode, whenever no run is under way, a    *)
(* pending event can be dispatched, whatever runs failed before.           *)
(***************************************************************************)
C6_FailuresCaught ==
    /\ \A k \in Runs : run[k].pc # "crashed"
    /\ \A k \in Runs : run[k].err # NoErr => run[k].pc = "error"
    /\ (mode = "watch" /\ events # <<>> /\ \A k \in Runs : ~Active(run[k])) =>
          ENABLED OnCreated

C6_Witness ==
    /\ mode = "watch"
    /\ events = <<>>
    /\ \E j, k \in Runs :
          /\ run[j].pc = "error"
          /\ run[k].pc = "transcribing"
          /\ Recognized(run[k].file)

(***************************************************************************)
(* C8: given the same file and the same outcome of every external step,    *)
(* process_audio_file and run_pipeline end with the same persistent        *)
(* effects (transcript files, spreadsheet rows, emails, moved file) and    *)
(* the same success-or-error outcome.                                      *)
(***************************************************************************)
C8_SamePipeline ==
    (Ended(eqW.r) /\ Ended(eqG.r)) =>
        /\ eqW.w = eqG.w
        /\ eqW.r.pc = eqG.r.pc

(***************************************************************************)
(* C10: add_appointment is an unlocked read-modify-write.  A write stores  *)
(* the rows the writer read plus its own row, whatever was written since   *)
(* the read, so the table never has more data rows than calls that         *)
(* returned and, when two calls overlap, can have fewer.                   *)
(***************************************************************************)
C10_WriteFromStaleRead ==
    \A k \in Runs :
        (run[k].pc = "writing" /\ run'[k].pc = "notifying") =>
            /\ store'.rows = Append(ToExcel(run[k].df).rows, ExpectedRow(run[k].data.fields))
            /\ Len(addedLog') = Len(addedLog) + 1

\* C10: every write stores the writer's stale read plus its row (last writer wins),
\* so rows can only be lost, never gained
C10_LastWriterWins ==
    [](store.exists => Len(store.rows) <= Len(addedLog))
    /\ [][C10_WriteFromStaleRead]_vars

C10_Witness ==
    /\ mode = "gui"
    /\ Len(addedLog) = 2
    /\ Len(store.rows) = 1
    /\ \A k \in Runs : run[k].pc = "done"

C9_EnsureIdempotent ==
    lastCall.op = "ensure" =>
        IF lastCall.before.exists
        THEN store = lastCall.before
        ELSE IF lastCall.raised
             THEN store = NoFile
             ELSE store = [exists |-> TRUE, header |-> headers, rows |-> <<>>]

C9_Witness ==
    /\ lastCall.op = "ensure"
    /\ lastCall.before.exists
    /\ Len(lastCall.before.rows) = 2
    /\ store = lastCall.before

(***************************************************************************)
(* C7: each getter returns exactly the stored string when section and key  *)
(* exist, and fails (returns nothing) when the key or the section is       *)
(* missing.                                                                *)
(***************************************************************************)
C7_GettersReturnOrFail ==
    lastGet.getter # "none" =>
        IF lastGet.section \in DOMAIN cfg /\ lastGet.key \in DOMAIN cfg[lastGet.section]
        THEN lastGet.exc = "" /\ lastGet.val = cfg[lastGet.section][lastGet.key]
        ELSE lastGet.exc # ""

(***************************************************************************)
(* C11: in directory-watch mode runs never overlap.  At most one run is    *)
(* under way at any moment, the run for a later event is started only when *)
(* the run for every earlier event has ended (done or error), and so the   *)
(* sheet holds exactly one row for every add_appointment that returned, in *)
(* call order: no row is lost, however many events are waiting.            *)
(***************************************************************************)
C11_WatchRunsSequential ==
    mode = "watch" =>
        /\ Cardinality({k \in Runs : Active(run[k])}) <= 1
        /\ \A j, k \in Runs :
              (j < k /\ run[k].pc # "idle") => run[j].pc \in {"done", "error"}
        /\ store.exists =>
              /\ Len(store.rows) = Len(addedLog)
              /\ \A i \in 1..Len(addedLog) : store.rows[i] = ExpectedRow(addedLog[i])

\* both files were created before the first run had stored its row, and both rows are kept
C11_Witness ==
    /\ mode = "watch"
    /\ nCreated = 2
    /\ run[1].pc = "done"
    /\ run[2].pc \in {"notifying", "archiving", "done"}
    /\ Len(addedLog) = 2
    /\ Len(store.rows) = 2

====
